---------------------------- MODULE Spec2Model ----------------------------
(***************************************************************************)
(* A model of cast-notify (src/src/lib.rs): the mDNS discovery pipeline    *)
(* (response source -> record extractor -> Unique), Target::connect and    *)
(* Connection::say.                                                        *)
(*                                                                         *)
(* Strings that the code takes apart (TXT items) are sequences of          *)
(* one-character strings; an Option is None or Some(v); a Result item of   *)
(* the stream is Ok(target) or Err(error).                                 *)
(***************************************************************************)
EXTENDS Naturals, Sequences, FiniteSets, TLC

VARIABLES
    query,      \* per stream: "absent" | "unsent" | "ok" | an mdns error (discover::all's result)
    queries,    \* per stream: the calls of mdns::discover::all made so far (service names)
    net,        \* per stream: what the flattened response source holds ready, in arrival order
    arrived,    \* per stream: number of responses/errors the listen stream has received
    seen,       \* per stream: Unique.seen
    up,         \* per stream: items the try_filter_map stream has yielded to Unique (history)
    out,        \* per stream: items poll_next has returned to the consumer (history)
    ended,      \* per stream: poll_next has returned Ready(None)
    response,   \* record extractor: the response under extraction
    extracted,  \* record extractor: None, or Some of the closure's Result<Option<Target>, Error>
    conn,       \* Target::connect: the worker task's position, target and result
    session,    \* the Connection { device } returned by connect, or None
    calls,      \* Connection::say: per call, the closure's position, message, app and the Result returned
    wire,       \* collaborator calls made on the device-control client, in order
    dropped     \* the connect/say futures the caller has dropped while pending, and when

vars == <<query, queries, net, arrived, seen, up, out, ended,
          response, extracted, conn, session, calls, wire, dropped>>

discoveryVars == <<query, queries, net, arrived, seen, up, out, ended>>
extractVars == <<response, extracted>>
sessionVars == <<conn, session, calls, wire, dropped>>

-----------------------------------------------------------------------------
(* Bounds of the model *)

\* responses and listen errors one stream receives
MaxEvents == 4
\* size of a response under extraction: its records plus its TXT items
MaxWeight == 6
\* say calls made on one Connection
MaxCalls == 2
\* say calls made on one Connection when futures may be dropped
MaxDropCalls == 1
\* responses and listen errors each of two streams receives
MaxPairEvents == 2
\* responses and listen errors the stream with the polling consumer receives
MaxLiveEvents == 3

-----------------------------------------------------------------------------
(* Values *)

None == [some |-> FALSE]
Some(v) == [some |-> TRUE, val |-> v]

Ok(v) == [tag |-> "ok", val |-> v]
Err(e) == [tag |-> "err", err |-> e]

\* Error::Mdns(e), Error::Cast(e)
Mdns(e) == [variant |-> "Mdns", e |-> e]
Cast(e) == [variant |-> "Cast", e |-> e]

DEFAULT_DESTINATION_ID == "receiver-0"
SERVICE_NAME == "_googlecast._tcp.local"

\* struct Target { name, addr }
Target(name, addr) == [name |-> name, addr |-> addr]

\* SocketAddr::from((ip, port))
SocketAddr(ip, port) == [ip |-> ip, port |-> port]

Ips == {<<192, 168, 1, 42>>, <<192, 168, 1, 43>>}
Ports == {8009, 8010}
MdnsErrors == {"mdns-io", "mdns-dns"}

LivingRoom == <<"L", "i", "v", "i", "n", "g", "R", "o", "o", "m">>
Den == <<"D", "e", "n">>
Names == {LivingRoom, Den}

\* RecordKind::TXT(Vec<String>), RecordKind::A(Ipv4Addr), RecordKind::SRV { port, .. },
\* and one kind the extractor does not look at
TXT(data) == [kind |-> "TXT", data |-> data]
A(ip) == [kind |-> "A", ip |-> ip]
SRV(port) == [kind |-> "SRV", port |-> port]
AAAA == [kind |-> "AAAA"]

-----------------------------------------------------------------------------
(* Record extractor: the try_filter_map closure of discover() *)

\* str::split(sep): the pieces of s between occurrences of sep (never empty)
RECURSIVE Split(_, _)
SplitCons(c, rest, sep) ==
    IF c = sep THEN << <<>> >> \o rest
    ELSE << <<c>> \o Head(rest) >> \o Tail(rest)

Split(s, sep) ==
    IF s = <<>> THEN << <<>> >>
    ELSE CHOOSE pieces \in {SplitCons(Head(s), rest, sep) : rest \in {Split(Tail(s), sep)}} : TRUE

\* item.split('=').next()
ItemKey(item) == Split(item, "=")[1]

\* item.split('=').skip(1).next().map(String::from)
ItemValue(item) ==
    LET parts == Split(item, "=") IN
    IF Len(parts) >= 2 THEN Some(parts[2]) ELSE None

\* a mutant of TxtName: only the first item of the TXT record is looked at
TxtNameFirstPair(data) ==
    IF data = <<>> THEN None
    ELSE IF ItemKey(Head(data)) = <<"f", "n">> THEN ItemValue(Head(data))
    ELSE None

\* the inner filter_map(..).map(..).next().flatten() over one TXT record's items:
\* the value of the first item whose key is fn
RECURSIVE TxtName(_)
TxtName(data) ==
    IF data = <<>> THEN None
    ELSE IF ItemKey(Head(data)) = <<"f", "n">> THEN ItemValue(Head(data))
    ELSE TxtName(Tail(data))

\* the outer filter_map(..).next(): the first TXT record that gives a name
RECURSIVE FirstName(_)
FirstName(additional) ==
    IF additional = <<>> THEN None
    ELSE LET r == Head(additional) IN
         IF r.kind = "TXT" /\ TxtName(r.data).some THEN TxtName(r.data)
         ELSE FirstName(Tail(additional))

\* the first RecordKind::A(ip)
RECURSIVE FirstIp(_)
FirstIp(additional) ==
    IF additional = <<>> THEN None
    ELSE IF Head(additional).kind = "A" THEN Some(Head(additional).ip)
    ELSE FirstIp(Tail(additional))

\* a mutant of FirstPort: a response without a SRV record gets the cast port
FirstPortOrDefault(additional) ==
    LET srv == SelectSeq(additional, LAMBDA r : r.kind = "SRV") IN
    IF srv = <<>> THEN Some(8009) ELSE Some(srv[1].port)

\* the first RecordKind::SRV { port, .. }
RECURSIVE FirstPort(_)
FirstPort(additional) ==
    IF additional = <<>> THEN None
    ELSE IF Head(additional).kind = "SRV" THEN Some(Head(additional).port)
    ELSE FirstPort(Tail(additional))

\* a mutant of Extract: the last record of each kind wins
ExtractLast(additional) ==
    LET rev == [i \in 1..Len(additional) |-> additional[Len(additional) + 1 - i]]
        name == FirstName(rev)
        ip == FirstIp(rev)
        port == FirstPort(rev)
    IN  IF name.some /\ ip.some /\ port.some
        THEN Some(Target(name.val, SocketAddr(ip.val, port.val)))
        ELSE None

\* the closure's Ok value, an Option<Target>; the closure never returns Err
Extract(additional) ==
    LET name == FirstName(additional) IN
    IF ~name.some THEN None
    ELSE LET ip == FirstIp(additional) IN
         IF ~ip.some THEN None
         ELSE LET port == FirstPort(additional) IN
              IF ~port.some THEN None
              ELSE Some(Target(name.val, SocketAddr(ip.val, port.val)))

-----------------------------------------------------------------------------
(* Discovery: discover(), the flattened response source, Unique *)

StreamIds == {1, 2}

\* what the response source hands on: a response, a listen error, or its end
Resp(additional) == [kind |-> "resp", additional |-> additional]
ListenErr(e) == [kind |-> "err", e |-> e]
End == [kind |-> "end"]

\* a TXT item fn=<name>
FnItem(name) == <<"f", "n", "=">> \o name

\* responses of the pipeline: a complete one for every address, one for the
\* same address under another name and record order, and one without a port
Announce(name, ip, port) == <<TXT(<<FnItem(name)>>), A(ip), SRV(port)>>
AnnounceReordered(name, ip, port) == <<SRV(port), AAAA, A(ip), TXT(<<FnItem(name)>>)>>
Responses ==
    {Announce(LivingRoom, ip, p) : ip \in Ips, p \in Ports}
    \cup {AnnounceReordered(Den, <<192, 168, 1, 42>>, 8009),
          <<TXT(<<FnItem(Den)>>), A(<<192, 168, 1, 43>>)>>}
Events == {Resp(r) : r \in Responses} \cup {ListenErr("mdns-io")}

\* a mutant of QueryFailedStream: the failure is yielded twice
QueryFailedTwice(e) == <<ListenErr(e), ListenErr(e), End>>

\* Either::Right(once(ready(Err(e.into())))): one item, then the end
QueryFailedStream(e) == <<ListenErr(e), End>>

\* the outcome of one poll of a stream: Poll::Pending, Poll::Ready(None),
\* Poll::Ready(Some(item)); rest is what the source still holds
Pending(rest) == [poll |-> "pending", item |-> None, rest |-> rest]
ReadyNone(rest) == [poll |-> "end", item |-> None, rest |-> rest]
ReadySome(item, rest) == [poll |-> "item", item |-> Some(item), rest |-> rest]

\* a mutant of TryFilterMapPoll: a response the closure maps to None ends
\* the stream
TryFilterMapEndsOnSkip(q) ==
    IF q = <<>> THEN Pending(q)
    ELSE LET ev == Head(q) IN
         IF ev.kind = "end" THEN ReadyNone(q)
         ELSE IF ev.kind = "err" THEN ReadySome(Err(Mdns(ev.e)), Tail(q))
         ELSE LET t == Extract(ev.additional) IN
              IF t.some THEN ReadySome(Ok(t.val), Tail(q))
              ELSE ReadyNone(q)

\* a mutant of TryFilterMapPoll: a response the closure maps to None is
\* reported as an error
TryFilterMapErrOnSkip(q) ==
    IF q = <<>> THEN Pending(q)
    ELSE LET ev == Head(q) IN
         IF ev.kind = "end" THEN ReadyNone(q)
         ELSE IF ev.kind = "err" THEN ReadySome(Err(Mdns(ev.e)), Tail(q))
         ELSE LET t == Extract(ev.additional) IN
              IF t.some THEN ReadySome(Ok(t.val), Tail(q))
              ELSE ReadySome(Err(Mdns("incomplete")), Tail(q))

\* poll_next of flatten().try_filter_map(closure): an error is handed on as
\* Error::Mdns, a response the closure maps to None is skipped
RECURSIVE TryFilterMapPoll(_)
TryFilterMapPoll(q) ==
    IF q = <<>> THEN Pending(q)
    ELSE LET ev == Head(q) IN
         IF ev.kind = "end" THEN ReadyNone(q)
         ELSE IF ev.kind = "err" THEN ReadySome(Err(Mdns(ev.e)), Tail(q))
         ELSE LET t == Extract(ev.additional) IN
              IF t.some THEN ReadySome(Ok(t.val), Tail(q))
              ELSE TryFilterMapPoll(Tail(q))

\* mutants of SeenKey: the set is keyed by name and address; by the ip alone
SeenKeyWithName(target) == <<target.name, target.addr>>
SeenKeyIpOnly(target) == target.addr.ip

\* what seen.insert() is given: item.addr.clone()
SeenKey(target) == target.addr

\* the state a poll of Unique leaves: its return value, the source, seen, and
\* the items it took from upstream
PollResult(ret, rest, seenSet, hist) ==
    [ret |-> ret, rest |-> rest, seen |-> seenSet, up |-> hist]

RECURSIVE UniqueLoop(_, _, _)

\* a mutant of OnError: an error is dropped and the loop goes on
OnErrorSkip(item, rest, seenSet, hist) == UniqueLoop(rest, seenSet, hist)

\* a mutant of OnError: the error is returned and the seen-set is emptied
OnErrorClearsSeen(item, rest, seenSet, hist) ==
    PollResult([poll |-> "item", item |-> Some(item)], rest, {}, hist)

\* the ? of poll_next on an Err item: return Poll::Ready(Some(Err(e)))
OnError(item, rest, seenSet, hist) ==
    PollResult([poll |-> "item", item |-> Some(item)], rest, seenSet, hist)

\* a mutant of UniqueArm: after a duplicate the poll returns Pending
UniqueArmYieldsOnDuplicate(r, seenSet, hist) ==
    IF r.poll = "pending" THEN PollResult([poll |-> "pending", item |-> None], r.rest, seenSet, hist)
    ELSE IF r.poll = "end" THEN PollResult([poll |-> "end", item |-> None], r.rest, seenSet, hist)
    ELSE LET item == r.item.val
             hist2 == Append(hist, item)
         IN  IF item.tag = "err" THEN OnError(item, r.rest, seenSet, hist2)
             ELSE IF SeenKey(item.val) \notin seenSet
                  THEN PollResult([poll |-> "item", item |-> Some(item)], r.rest,
                                  seenSet \cup {SeenKey(item.val)}, hist2)
                  ELSE PollResult([poll |-> "pending", item |-> None], r.rest, seenSet, hist2)

\* one pass of the loop of Unique::poll_next on the outcome r of the poll
\* of the upstream
UniqueArm(r, seenSet, hist) ==
    IF r.poll = "pending" THEN PollResult([poll |-> "pending", item |-> None], r.rest, seenSet, hist)
    ELSE IF r.poll = "end" THEN PollResult([poll |-> "end", item |-> None], r.rest, seenSet, hist)
    ELSE LET item == r.item.val
             hist2 == Append(hist, item)
         IN  IF item.tag = "err" THEN OnError(item, r.rest, seenSet, hist2)
             ELSE IF SeenKey(item.val) \notin seenSet
                  THEN PollResult([poll |-> "item", item |-> Some(item)], r.rest,
                                  seenSet \cup {SeenKey(item.val)}, hist2)
                  ELSE UniqueLoop(r.rest, seenSet, hist2)

\* the loop of Unique::poll_next: the upstream is polled, once a pass
UniqueLoop(q, seenSet, hist) ==
    CHOOSE res \in {UniqueArm(r, seenSet, hist) : r \in {TryFilterMapPoll(q)}} : TRUE

\* a mutant of discover: the query is sent when discover() is called
discover_eager(s) ==
    /\ query[s] = "absent"
    /\ query' = [query EXCEPT ![s] = "unsent"]
    /\ queries' = [queries EXCEPT ![s] = Append(@, SERVICE_NAME)]
    /\ seen' = [seen EXCEPT ![s] = {}]
    /\ UNCHANGED <<net, arrived, up, out, ended>>
    /\ UNCHANGED <<extractVars, sessionVars>>

\* discover(): Unique::new over a stream that has not been polled; nothing
\* is sent yet
discover(s) ==
    /\ query[s] = "absent"
    /\ query' = [query EXCEPT ![s] = "unsent"]
    /\ seen' = [seen EXCEPT ![s] = {}]
    /\ UNCHANGED <<queries, net, arrived, up, out, ended>>
    /\ UNCHANGED <<extractVars, sessionVars>>

\* a mutant of Polled: one seen-set is kept for all streams
PolledSharedSeen(s, q) ==
    LET p == UniqueLoop(q, UNION {seen[t] : t \in StreamIds}, up[s]) IN
    /\ net' = [net EXCEPT ![s] = p.rest]
    /\ seen' = [seen EXCEPT ![s] = p.seen]
    /\ up' = [up EXCEPT ![s] = p.up]
    /\ out' = [out EXCEPT ![s] = IF p.ret.poll = "item" THEN Append(@, p.ret.item.val) ELSE @]
    /\ ended' = [ended EXCEPT ![s] = (p.ret.poll = "end")]

\* the consumer's side of one poll_next of stream s over source q
Polled(s, q) ==
    \E p \in {UniqueLoop(q, seen[s], up[s])} :
        /\ net' = [net EXCEPT ![s] = p.rest]
        /\ seen' = [seen EXCEPT ![s] = p.seen]
        /\ up' = [up EXCEPT ![s] = p.up]
        /\ out' = [out EXCEPT ![s] = IF p.ret.poll = "item" THEN Append(@, p.ret.item.val) ELSE @]
        /\ ended' = [ended EXCEPT ![s] = (p.ret.poll = "end")]

\* the first poll_next: the async block runs mdns::discover::all, and the
\* stream it returns is polled in the same call
poll_first(s) ==
    /\ query[s] = "unsent"
    /\ queries' = [queries EXCEPT ![s] = Append(@, SERVICE_NAME)]
    /\ \E res \in {"ok"} \cup MdnsErrors :
          /\ query' = [query EXCEPT ![s] = res]
          /\ Polled(s, IF res = "ok" THEN <<>> ELSE QueryFailedStream(res))
    /\ UNCHANGED arrived
    /\ UNCHANGED <<extractVars, sessionVars>>

\* a later poll_next, until the consumer has seen the end
poll_next(s) ==
    /\ query[s] \notin {"absent", "unsent"}
    /\ ~ended[s]
    /\ Polled(s, net[s])
    /\ UNCHANGED <<query, queries, arrived>>
    /\ UNCHANGED <<extractVars, sessionVars>>

\* the source has not ended
SourceOpen(q) == \A i \in 1..Len(q) : q[i] # End

\* the listen stream receives a response or fails once
Arrive(s, ev) ==
    /\ query[s] = "ok"
    /\ arrived[s] < MaxEvents
    /\ SourceOpen(net[s])
    /\ net' = [net EXCEPT ![s] = Append(@, ev)]
    /\ arrived' = [arrived EXCEPT ![s] = @ + 1]
    /\ UNCHANGED <<query, queries, seen, up, out, ended>>
    /\ UNCHANGED <<extractVars, sessionVars>>

\* the listen stream ends
SourceEnds(s) ==
    /\ query[s] = "ok"
    /\ SourceOpen(net[s])
    /\ net' = [net EXCEPT ![s] = Append(@, End)]
    /\ UNCHANGED <<query, queries, arrived, seen, up, out, ended>>
    /\ UNCHANGED <<extractVars, sessionVars>>

-----------------------------------------------------------------------------
(* The record extractor on its own: a response is put together record by    *)
(* record and item by item, and the closure is applied to it                *)

\* the TXT items responses are made of: fn=LivingRoom, fn=Den, fn, id=fn
TxtItems == {FnItem(LivingRoom), FnItem(Den), <<"f", "n">>, <<"i", "d", "=", "f", "n">>}

\* the records responses are made of; a TXT record starts without items
Records == {TXT(<<>>), AAAA} \cup {A(ip) : ip \in Ips} \cup {SRV(p) : p \in Ports}

\* records plus TXT items of a response
RECURSIVE Weight(_)
Weight(additional) ==
    IF additional = <<>> THEN 0
    ELSE 1 + (IF Head(additional).kind = "TXT" THEN Len(Head(additional).data) ELSE 0)
           + Weight(Tail(additional))

\* the response gets one more record
AppendRecord(r) ==
    /\ extracted = None
    /\ Weight(response) < MaxWeight
    /\ response' = Append(response, r)
    /\ UNCHANGED extracted
    /\ UNCHANGED <<discoveryVars, sessionVars>>

\* the last record, a TXT record, gets one more item
AppendTxtItem(item) ==
    /\ extracted = None
    /\ Weight(response) < MaxWeight
    /\ response # <<>>
    /\ response[Len(response)].kind = "TXT"
    /\ response' = [response EXCEPT ![Len(response)] = TXT(Append(@.data, item))]
    /\ UNCHANGED extracted
    /\ UNCHANGED <<discoveryVars, sessionVars>>

\* the closure runs on the response; transpose() gives Ok of the Option
ExtractResponse ==
    /\ extracted = None
    /\ extracted' = Some(Ok(Extract(response)))
    /\ UNCHANGED response
    /\ UNCHANGED <<discoveryVars, sessionVars>>

-----------------------------------------------------------------------------
(* Target::connect and Connection::say.  Each runs a closure on a worker    *)
(* thread (unblock); a step of the model is one call of the closure on the  *)
(* device-control client, which succeeds or fails as the device decides.    *)

\* the rust_cast error a failing call returns; it tells which call failed
CastErrors(op) == {<<"failed", op>>}

\* the targets connect is tried on
ConnectTargets ==
    {Target(LivingRoom, SocketAddr(<<192, 168, 1, 42>>, 8009)),
     Target(Den, SocketAddr(<<192, 168, 1, 43>>, 8010))}

\* the texts say is given
Texts == {"hello", "bye"}

\* self.addr.ip().to_string(): dotted decimal
IpToString(ip) ==
    ToString(ip[1]) \o "." \o ToString(ip[2]) \o "." \o ToString(ip[3]) \o "." \o ToString(ip[4])

\* "CC1AD845".parse().unwrap()
APP_ID == "CC1AD845"

\* google_translate_tts::url(&message, "en")
url(text, lang) == <<"tts", text, lang>>

\* the Media value say loads
Media(message) ==
    [stream_type |-> "Buffered", duration |-> None, metadata |-> None,
     content_type |-> "audio/mp3", content_id |-> url(message, "en")]

\* the application a launch returns; the device gives its n-th launch
\* identifiers of its own
Application(n) == [transport_id |-> <<"transport", n>>, session_id |-> <<"session", n>>]

\* the CastDevice that connect_without_host_verification(host, port) gives
CastDevice(addr) == [host |-> IpToString(addr.ip), port |-> addr.port]

\* who makes a call: the closure of connect, or that of the c-th say call
ByConnect == <<"connect", 0>>
BySay(c) == <<"say", c>>

\* one call on the device-control client: who made it, which, with what, and
\* its Result
Call(by, op, args, res) == [by |-> by, op |-> op, args |-> args, res |-> res]

\* the calls task `by` has made, in order
CallsBy(by) == SelectSeq(wire, LAMBDA c : c.by = by)

\* the future of task `by` was dropped when the wire held `at` calls
Dropped(by, at) == [by |-> by, at |-> at]

\* the caller has dropped the future of task `by`
IsDropped(by) == \E d \in dropped : d.by = by

\* the successful launches so far
Launched == Len(SelectSeq(wire, LAMBDA c : c.op = "launch_app" /\ c.res.tag = "ok"))

\* Target::connect is called and awaited: the closure is handed to the pool
connect(t) ==
    /\ conn.pc = "idle"
    /\ conn' = [pc |-> "open", target |-> Some(t), output |-> None, result |-> None]
    /\ UNCHANGED <<session, calls, wire, dropped>>
    /\ UNCHANGED <<discoveryVars, extractVars>>

\* one step of the connect closure: the call is made; Ok moves on to `next`,
\* Err(e) ends the closure with Err(Error::Cast(e)) (the ? operator)
ConnectStep(at, op, args, next) ==
    /\ conn.pc = at
    /\ \/ /\ wire' = Append(wire, Call(ByConnect, op, args, Ok("done")))
          /\ conn' = [conn EXCEPT !.pc = next,
                                  !.output = IF next = "finished" THEN Some(Ok(CastDevice(conn.target.val.addr)))
                                             ELSE @]
       \/ \E e \in CastErrors(op) :
             /\ wire' = Append(wire, Call(ByConnect, op, args, Err(e)))
             /\ conn' = [conn EXCEPT !.pc = "finished", !.output = Some(Err(Cast(e)))]
    /\ UNCHANGED <<session, calls, dropped>>
    /\ UNCHANGED <<discoveryVars, extractVars>>

\* CastDevice::connect_without_host_verification(ip.to_string(), port)?
connect_open ==
    /\ conn.pc = "open"
    /\ ConnectStep("open", "connect_without_host_verification",
                   <<IpToString(conn.target.val.addr.ip), conn.target.val.addr.port>>,
                   "address")

\* device.connection.connect(DEFAULT_DESTINATION_ID.to_string())?
connect_receiver ==
    /\ conn.pc = "address"
    /\ ConnectStep("address", "connection.connect", <<DEFAULT_DESTINATION_ID>>, "ping")

\* a mutant of connect_ping: the result of the ping is not looked at
connect_ping_unchecked ==
    /\ conn.pc = "ping"
    /\ \E res \in {Ok("done")} \cup {Err(e) : e \in CastErrors("heartbeat.ping")} :
          wire' = Append(wire, Call(ByConnect, "heartbeat.ping", <<>>, res))
    /\ conn' = [conn EXCEPT !.pc = "finished",
                            !.output = Some(Ok(CastDevice(conn.target.val.addr)))]
    /\ UNCHANGED <<session, calls, dropped>>
    /\ UNCHANGED <<discoveryVars, extractVars>>

\* device.heartbeat.ping()?; Ok::<_, Error>(device)
connect_ping ==
    /\ conn.pc = "ping"
    /\ ConnectStep("ping", "heartbeat.ping", <<>>, "finished")

\* the future of connect is dropped while it is pending: the closure on the
\* worker thread holds no handle to it and is not told
drop_connect ==
    /\ conn.pc \in {"open", "address", "ping", "finished"}
    /\ ~IsDropped(ByConnect)
    /\ dropped' = dropped \cup {Dropped(ByConnect, Len(wire))}
    /\ UNCHANGED <<conn, session, calls, wire>>
    /\ UNCHANGED <<discoveryVars, extractVars>>

\* .await?: an Err is returned as it is, an Ok device becomes the Connection;
\* a dropped future is never resumed
connect_return ==
    /\ conn.pc = "finished"
    /\ ~IsDropped(ByConnect)
    /\ conn' = [conn EXCEPT !.pc = "returned", !.result = conn.output]
    /\ session' = IF conn.output.val.tag = "ok"
                  THEN Some([device |-> conn.output.val.val])
                  ELSE None
    /\ UNCHANGED <<calls, wire, dropped>>
    /\ UNCHANGED <<discoveryVars, extractVars>>

\* Connection::say is called and awaited: device is cloned, the message is
\* owned, the closure is handed to the pool
say(text) ==
    /\ session.some
    /\ Len(calls) < MaxCalls
    /\ calls' = Append(calls, [pc |-> "launch", message |-> text, app |-> None,
                              result |-> None])
    /\ UNCHANGED <<conn, session, wire, dropped>>
    /\ UNCHANGED <<discoveryVars, extractVars>>

\* the future of say call c is dropped while it is pending
drop_say(c) ==
    /\ c \in 1..Len(calls)
    /\ calls[c].pc \in {"launch", "connect", "load"}
    /\ ~IsDropped(BySay(c))
    /\ dropped' = dropped \cup {Dropped(BySay(c), Len(wire))}
    /\ UNCHANGED <<conn, session, calls, wire>>
    /\ UNCHANGED <<discoveryVars, extractVars>>

\* one step of the closure of call c: Ok(v) moves on to `next`, Err(e) ends
\* the closure with Err(Error::Cast(e)); what the closure returns is what
\* .await hands to the caller of say, unless the future was dropped
SayStep(c, at, op, args, v, next) ==
    /\ c \in 1..Len(calls)
    /\ calls[c].pc = at
    /\ \/ /\ wire' = Append(wire, Call(BySay(c), op, args, Ok(v)))
          /\ calls' = [calls EXCEPT ![c].pc = next,
                                    ![c].app = IF op = "launch_app" THEN Some(v) ELSE @,
                                    ![c].result = IF next = "returned" /\ ~IsDropped(BySay(c))
                                                  THEN Some(Ok("unit")) ELSE @]
       \/ \E e \in CastErrors(op) :
             /\ wire' = Append(wire, Call(BySay(c), op, args, Err(e)))
             /\ calls' = [calls EXCEPT ![c].pc = "returned",
                                       ![c].result = IF IsDropped(BySay(c)) THEN @
                                                     ELSE Some(Err(Cast(e)))]
    /\ UNCHANGED <<conn, session, dropped>>
    /\ UNCHANGED <<discoveryVars, extractVars>>

\* a mutant of say_launch: the application an earlier call launched is kept
say_launch_cached(c) ==
    IF Launched > 0
    THEN /\ c \in 1..Len(calls)
         /\ calls[c].pc = "launch"
         /\ calls' = [calls EXCEPT ![c].pc = "connect", ![c].app = Some(Application(Launched))]
         /\ UNCHANGED <<conn, session, wire, dropped>>
         /\ UNCHANGED <<discoveryVars, extractVars>>
    ELSE SayStep(c, "launch", "launch_app", <<APP_ID>>, Application(Launched + 1), "connect")

\* a mutant of say_launch: a call waits while another is between its steps
say_launch_locked(c) ==
    /\ \A d \in 1..Len(calls) : calls[d].pc \notin {"connect", "load"}
    /\ SayStep(c, "launch", "launch_app", <<APP_ID>>, Application(Launched + 1), "connect")

\* let app = device.receiver.launch_app(&app)?
say_launch(c) ==
    /\ c \in 1..Len(calls)
    /\ calls[c].pc = "launch"
    /\ SayStep(c, "launch", "launch_app", <<APP_ID>>, Application(Launched + 1), "connect")

\* a mutant of say_connect: the result of the transport connect is not looked at
say_connect_unchecked(c) ==
    /\ c \in 1..Len(calls)
    /\ calls[c].pc = "connect"
    /\ \E res \in {Ok("done")} \cup {Err(e) : e \in CastErrors("connection.connect")} :
          wire' = Append(wire, Call(BySay(c), "connection.connect", <<calls[c].app.val.transport_id>>, res))
    /\ calls' = [calls EXCEPT ![c].pc = "load"]
    /\ UNCHANGED <<conn, session, dropped>>
    /\ UNCHANGED <<discoveryVars, extractVars>>

\* a mutant of say_connect: the transport of the latest launch on the
\* device is connected to
say_connect_latest(c) ==
    /\ c \in 1..Len(calls)
    /\ calls[c].pc = "connect"
    /\ SayStep(c, "connect", "connection.connect", <<Application(Launched).transport_id>>,
               "done", "load")

\* a mutant of say_connect: the closure stops once its future is dropped
say_connect_cancellable(c) ==
    /\ c \in 1..Len(calls)
    /\ calls[c].pc = "connect"
    /\ ~IsDropped(BySay(c))
    /\ SayStep(c, "connect", "connection.connect", <<calls[c].app.val.transport_id>>,
               "done", "load")

\* device.connection.connect(&app.transport_id)?
say_connect(c) ==
    /\ c \in 1..Len(calls)
    /\ calls[c].pc = "connect"
    /\ SayStep(c, "connect", "connection.connect", <<calls[c].app.val.transport_id>>,
               "done", "load")

\* a mutant of say_load: a failed load gives the Connection up
say_load_closes(c) ==
    /\ c \in 1..Len(calls)
    /\ calls[c].pc = "load"
    /\ \/ /\ SayStep(c, "load", "media.load",
                      <<calls[c].app.val.transport_id, calls[c].app.val.session_id,
                        Media(calls[c].message)>>,
                      "done", "returned")
          /\ wire'[Len(wire')].res.tag = "ok"
       \/ \E e \in CastErrors("media.load") :
             /\ wire' = Append(wire, Call(BySay(c), "media.load",
                                         <<calls[c].app.val.transport_id,
                                           calls[c].app.val.session_id,
                                           Media(calls[c].message)>>, Err(e)))
             /\ calls' = [calls EXCEPT ![c].pc = "returned", ![c].result = Some(Err(Cast(e)))]
             /\ session' = None
             /\ UNCHANGED <<conn, dropped>>
             /\ UNCHANGED <<discoveryVars, extractVars>>

\* device.media.load(&app.transport_id, &app.session_id, &Media { .. })?; Ok(())
\* and the .await that returns it
say_load(c) ==
    /\ c \in 1..Len(calls)
    /\ calls[c].pc = "load"
    /\ SayStep(c, "load", "media.load",
               <<calls[c].app.val.transport_id, calls[c].app.val.session_id,
                 Media(calls[c].message)>>,
               "done", "returned")

-----------------------------------------------------------------------------
(* Initial state and specifications *)

Init ==
    /\ query = [s \in StreamIds |-> "absent"]
    /\ queries = [s \in StreamIds |-> <<>>]
    /\ net = [s \in StreamIds |-> <<>>]
    /\ arrived = [s \in StreamIds |-> 0]
    /\ seen = [s \in StreamIds |-> {}]
    /\ up = [s \in StreamIds |-> <<>>]
    /\ out = [s \in StreamIds |-> <<>>]
    /\ ended = [s \in StreamIds |-> FALSE]
    /\ response = <<>>
    /\ extracted = None
    /\ conn = [pc |-> "idle", target |-> None, output |-> None, result |-> None]
    /\ session = None
    /\ calls = <<>>
    /\ wire = <<>>
    /\ dropped = {}

\* one discovery stream (stream 1) and its consumer
Next ==
    \/ discover(1)
    \/ poll_first(1)
    \/ poll_next(1)
    \/ \E ev \in Events : Arrive(1, ev)
    \/ SourceEnds(1)

Spec == Init /\ [][Next]_vars

\* what the stream with the polling consumer receives: a device, the same
\* address under another name, another device, or a listen error
LiveEvents ==
    {Resp(Announce(LivingRoom, <<192, 168, 1, 42>>, 8009)),
     Resp(AnnounceReordered(Den, <<192, 168, 1, 42>>, 8009)),
     Resp(Announce(LivingRoom, <<192, 168, 1, 43>>, 8009)),
     ListenErr("mdns-io")}

NextLive ==
    \/ discover(1)
    \/ poll_first(1)
    \/ poll_next(1)
    \/ \E ev \in LiveEvents : arrived[1] < MaxLiveEvents /\ Arrive(1, ev)
    \/ SourceEnds(1)

\* the stream with a consumer that keeps polling: a poll that can return
\* something is made in the end
SpecFair ==
    /\ Init /\ [][NextLive]_vars
    /\ WF_vars(poll_first(1))
    /\ WF_vars(poll_next(1))

\* what each of two streams receives: two devices, or a listen error
PairEvents ==
    {Resp(Announce(LivingRoom, ip, 8009)) : ip \in Ips} \cup {ListenErr("mdns-io")}

\* two discovery streams, each made by its own call of discover()
NextPair ==
    \E s \in StreamIds :
        \/ discover(s)
        \/ poll_first(s)
        \/ poll_next(s)
        \/ \E ev \in PairEvents : arrived[s] < MaxPairEvents /\ Arrive(s, ev)
        \/ SourceEnds(s)

SpecPair == Init /\ [][NextPair]_vars

\* the record extractor over the responses of bounded weight
NextExtract ==
    \/ \E r \in Records : AppendRecord(r)
    \/ \E item \in TxtItems : AppendTxtItem(item)
    \/ ExtractResponse

SpecExtract == Init /\ [][NextExtract]_vars

\* one Target, its connect, and the say calls on the Connection
NextSession ==
    \/ \E t \in ConnectTargets : connect(t)
    \/ connect_open
    \/ connect_receiver
    \/ connect_ping
    \/ connect_return
    \/ \E text \in Texts : say(text)
    \/ \E c \in 1..MaxCalls :
          \/ say_launch(c)
          \/ say_connect(c)
          \/ say_load(c)

SpecSession == Init /\ [][NextSession]_vars

\* connect and say calls whose futures the caller may drop while pending
NextCancel ==
    \/ \E t \in ConnectTargets : connect(t)
    \/ connect_open
    \/ connect_receiver
    \/ connect_ping
    \/ connect_return
    \/ drop_connect
    \/ \E text \in Texts : Len(calls) < MaxDropCalls /\ say(text)
    \/ \E c \in 1..MaxDropCalls :
          \/ say_launch(c)
          \/ say_connect(c)
          \/ say_load(c)
          \/ drop_say(c)

SpecCancel == Init /\ [][NextCancel]_vars

-----------------------------------------------------------------------------
(* Operators the properties are stated with *)

\* the successful descriptors of a sequence of items, in order
OkTargets(items) ==
    LET oks == SelectSeq(items, LAMBDA it : it.tag = "ok") IN
    [i \in 1..Len(oks) |-> oks[i].val]

\* the error items of a sequence of items, in order
ErrItems(items) == SelectSeq(items, LAMBDA it : it.tag = "err")

\* item i is an Ok whose address an earlier Ok item of the sequence has
RepeatsAddress(items, i) ==
    /\ items[i].tag = "ok"
    /\ \E j \in 1..(i - 1) :
          items[j].tag = "ok" /\ items[j].val.addr = items[i].val.addr

\* the first n items without those that repeat an address
RECURSIVE WithoutRepeats(_, _)
WithoutRepeats(items, n) ==
    IF n = 0 THEN <<>>
    ELSE IF RepeatsAddress(items, n) THEN WithoutRepeats(items, n - 1)
    ELSE Append(WithoutRepeats(items, n - 1), items[n])

\* what one stream is made of
StreamState(s) == <<query[s], net[s], seen[s], up[s], out[s], ended[s]>>

-----------------------------------------------------------------------------
(* C1: within one discovery stream no socket address is emitted as a        *)
(* successful descriptor twice; a later item with an emitted address is     *)
(* discarded whatever its name.                                             *)
C1_AddressEmittedOnce ==
    \A s \in StreamIds :
        \A i, j \in 1..Len(out[s]) :
            (i < j /\ out[s][i].tag = "ok" /\ out[s][j].tag = "ok")
                => out[s][i].val.addr # out[s][j].val.addr

\* upstream has yielded one address under two names, and the first was emitted
C1_Witness ==
    \E i, j \in 1..Len(up[1]) :
        /\ i < j
        /\ up[1][i].tag = "ok" /\ up[1][j].tag = "ok"
        /\ up[1][i].val.addr = up[1][j].val.addr
        /\ up[1][i].val.name # up[1][j].val.name
        /\ \E k \in 1..Len(out[1]) : out[1][k] = up[1][i]

(* C2: the successful descriptors emitted are exactly the first occurrences *)
(* of each distinct address among those upstream has yielded, in upstream   *)
(* order, in every state (nothing is held back).                            *)
C2_FirstOccurrencesInOrder ==
    \A s \in StreamIds :
        OkTargets(out[s]) = OkTargets(WithoutRepeats(up[s], Len(up[s])))

\* two addresses with one ip and one name were both emitted, and a repeat was dropped
C2_Witness ==
    /\ \E i, j \in 1..Len(out[1]) :
          /\ i < j
          /\ out[1][i].tag = "ok" /\ out[1][j].tag = "ok"
          /\ out[1][i].val.addr.ip = out[1][j].val.addr.ip
          /\ out[1][i].val.addr.port # out[1][j].val.addr.port
          /\ out[1][i].val.name = out[1][j].val.name
    /\ \E i \in 1..Len(up[1]) : RepeatsAddress(up[1], i)

(* C3: every error upstream yields is returned to the consumer: the errors  *)
(* emitted are those upstream yielded, as many and in the same order, and   *)
(* each keeps its place among the emitted descriptors.                      *)
C3_ErrorsForwarded ==
    \A s \in StreamIds :
        /\ ErrItems(out[s]) = ErrItems(up[s])
        /\ out[s] = WithoutRepeats(up[s], Len(up[s]))

\* the same error came twice, after a descriptor and after a dropped repeat
C3_Witness ==
    /\ \E i, j \in 1..Len(out[1]) :
          /\ i < j
          /\ out[1][i].tag = "err"
          /\ out[1][j] = out[1][i]
          /\ \E k \in 1..(i - 1) : out[1][k].tag = "ok"
    /\ \E i \in 1..Len(up[1]) : RepeatsAddress(up[1], i)

(* C4: when the multicast query cannot be sent, the stream yields that      *)
(* failure and nothing else, and the poll after it returns the end.         *)
C4_QueryFailureThenEnd ==
    [][\A s \in StreamIds :
          /\ query'[s] \in MdnsErrors =>
                /\ out'[s] = <<Err(Mdns(query'[s]))>>
                /\ seen'[s] = {}
          /\ (query[s] \in MdnsErrors /\ StreamState(s)' # StreamState(s)) =>
                ended'[s]]_vars

\* the query failed and the consumer has seen the end
C4_Witness ==
    /\ query[1] \in MdnsErrors
    /\ ended[1]
    /\ Len(out[1]) = 1

-----------------------------------------------------------------------------
(* The records of a response, stated by position *)

\* the item is fn, or starts fn=
IsFnKeyed(item) ==
    /\ Len(item) >= 2
    /\ item[1] = "f" /\ item[2] = "n"
    /\ (Len(item) = 2 \/ item[3] = "=")

\* what follows fn= in the item, up to the next = or the end
FnValue(item) ==
    LET stops == {k \in 4..Len(item) : item[k] = "="}
        stop == IF stops = {} THEN Len(item) + 1
                ELSE CHOOSE k \in stops : \A m \in stops : k <= m
    IN  SubSeq(item, 4, stop - 1)

\* item k is the first fn-keyed item of the TXT data
FirstFnKeyed(data, k) ==
    /\ IsFnKeyed(data[k])
    /\ \A m \in 1..(k - 1) : ~IsFnKeyed(data[m])

\* a TXT record whose first fn-keyed item carries a value
GivesName(r) ==
    /\ r.kind = "TXT"
    /\ \E k \in 1..Len(r.data) : FirstFnKeyed(r.data, k) /\ Len(r.data[k]) >= 3

\* some TXT record has an item that starts fn=
HasFnText(additional) ==
    \E i \in 1..Len(additional) :
        /\ additional[i].kind = "TXT"
        /\ \E k \in 1..Len(additional[i].data) :
              LET item == additional[i].data[k] IN
              Len(item) >= 3 /\ SubSeq(item, 1, 3) = <<"f", "n", "=">>

HasKind(additional, kind) == \E i \in 1..Len(additional) : additional[i].kind = kind

\* record i is the first of the response that P holds of
IsFirst(additional, i, P(_)) ==
    /\ P(additional[i])
    /\ \A j \in 1..(i - 1) : ~P(additional[j])

-----------------------------------------------------------------------------
(* C5: the record extractor gives a descriptor only for a response that    *)
(* holds a TXT record with an fn= item, an A record and a SRV record; for   *)
(* any other response it gives Ok(None), never an error.                    *)
C5_DescriptorNeedsAllThree ==
    extracted.some =>
        /\ extracted.val.tag = "ok"
        /\ extracted.val.val.some =>
              /\ HasFnText(response)
              /\ HasKind(response, "A")
              /\ HasKind(response, "SRV")

\* a response with a name and an address and no port was mapped to Ok(None)
C5_Witness ==
    /\ extracted = Some(Ok(None))
    /\ HasFnText(response)
    /\ HasKind(response, "A")
    /\ ~HasKind(response, "SRV")

(* C6: a response with a name-giving TXT record, an A record and a SRV     *)
(* record gives the descriptor made of the fn value of the first such TXT   *)
(* record, the ip of the first A record and the port of the first SRV       *)
(* record; fn=LivingRoom, 192.168.1.42, 8009 gives LivingRoom at            *)
(* 192.168.1.42:8009.                                                       *)
C6_FirstRecordOfEachKindWins ==
    /\ (/\ extracted.some
        /\ \E i \in 1..Len(response) : GivesName(response[i])
        /\ HasKind(response, "A")
        /\ HasKind(response, "SRV")) =>
          /\ extracted.val.tag = "ok"
          /\ extracted.val.val.some
          /\ LET target == extracted.val.val.val IN
             /\ \E i \in 1..Len(response) :
                   /\ IsFirst(response, i, GivesName)
                   /\ \E k \in 1..Len(response[i].data) :
                         /\ FirstFnKeyed(response[i].data, k)
                         /\ target.name = FnValue(response[i].data[k])
             /\ \E i \in 1..Len(response) :
                   /\ IsFirst(response, i, LAMBDA r : r.kind = "A")
                   /\ target.addr.ip = response[i].ip
             /\ \E i \in 1..Len(response) :
                   /\ IsFirst(response, i, LAMBDA r : r.kind = "SRV")
                   /\ target.addr.port = response[i].port
    /\ (extracted.some /\ response = Announce(LivingRoom, <<192, 168, 1, 42>>, 8009)) =>
          extracted.val.val = Some(Target(LivingRoom, SocketAddr(<<192, 168, 1, 42>>, 8009)))

\* a descriptor came from a response with a second A record of another ip
\* and a second SRV record of another port
C6_Witness ==
    /\ extracted.some
    /\ extracted.val.val.some
    /\ \E i, j \in 1..Len(response) :
          /\ i < j
          /\ response[i].kind = "A" /\ response[j].kind = "A"
          /\ response[i].ip # response[j].ip
    /\ \E i, j \in 1..Len(response) :
          /\ i < j
          /\ response[i].kind = "SRV" /\ response[j].kind = "SRV"
          /\ response[i].port # response[j].port

-----------------------------------------------------------------------------
(* C7: connect makes, in this order, the calls open(ip, port of the        *)
(* descriptor), connect(receiver-0), ping; a failed call is its last call   *)
(* and its error is the error returned; a Connection exists exactly when    *)
(* connect has returned after three successful calls.                       *)
C7_ConnectAllOrNothing ==
    LET cw == CallsBy(ByConnect)
        n == Len(cw)
        host == IF conn.target.val.addr.ip = <<192, 168, 1, 42>>
                THEN "192.168.1.42" ELSE "192.168.1.43"
    IN  /\ n <= 3
        /\ conn.pc = "idle" => n = 0
        /\ n >= 1 => /\ cw[1].op = "connect_without_host_verification"
                     /\ cw[1].args = <<host, conn.target.val.addr.port>>
        /\ n >= 2 => /\ cw[1].res.tag = "ok"
                     /\ cw[2].op = "connection.connect"
                     /\ cw[2].args = <<"receiver-0">>
        /\ n >= 3 => /\ cw[2].res.tag = "ok"
                     /\ cw[3].op = "heartbeat.ping"
        /\ session.some <=> (conn.pc = "returned" /\ n = 3 /\ cw[3].res.tag = "ok")
        /\ conn.pc = "returned" =>
              /\ conn.result.some
              /\ n >= 1
              /\ IF cw[n].res.tag = "ok"
                 THEN n = 3 /\ conn.result.val.tag = "ok"
                 ELSE conn.result.val = Err(Cast(cw[n].res.err))
        /\ conn.pc # "returned" => ~conn.result.some
        /\ ~session.some => calls = <<>>

\* the ping failed and connect returned its error
C7_Witness ==
    /\ conn.pc = "returned"
    /\ Len(CallsBy(ByConnect)) = 3
    /\ conn.result = Some(Err(Cast(<<"failed", "heartbeat.ping">>)))
    /\ ~session.some

(* C8: the calls of one say call are a prefix of launch(CC1AD845),          *)
(* connect(transport id of that launch), load(ids of that launch, media     *)
(* for the text and en); a failed call is its last call and its error is    *)
(* the error returned; Ok is returned only after three successful calls.    *)
C8_SaySequence ==
    \A c \in 1..Len(calls) :
        LET cw == CallsBy(BySay(c))
            n == Len(cw)
        IN  /\ n <= 3
            /\ n >= 1 => /\ cw[1].op = "launch_app"
                         /\ cw[1].args = <<"CC1AD845">>
            /\ n >= 2 => /\ cw[1].res.tag = "ok"
                         /\ cw[2].op = "connection.connect"
                         /\ cw[2].args = <<cw[1].res.val.transport_id>>
            /\ n >= 3 => /\ cw[2].res.tag = "ok"
                         /\ cw[3].op = "media.load"
                         /\ cw[3].args =
                               <<cw[1].res.val.transport_id, cw[1].res.val.session_id,
                                 [stream_type |-> "Buffered", duration |-> None,
                                  metadata |-> None, content_type |-> "audio/mp3",
                                  content_id |-> <<"tts", calls[c].message, "en">>]>>
            /\ calls[c].result.some =>
                  /\ n >= 1
                  /\ IF cw[n].res.tag = "ok"
                     THEN n = 3 /\ calls[c].result.val = Ok("unit")
                     ELSE calls[c].result.val = Err(Cast(cw[n].res.err))
            /\ (~calls[c].result.some /\ n >= 1) => cw[n].res.tag = "ok" /\ n < 3

\* one call returned the error of its launch without another call of its
\* own, and a call saying hello returned Ok
C8_Witness ==
    /\ \E c \in 1..Len(calls) :
          /\ calls[c].result = Some(Err(Cast(<<"failed", "launch_app">>)))
          /\ Len(CallsBy(BySay(c))) = 1
    /\ \E c \in 1..Len(calls) :
          /\ calls[c].result = Some(Ok("unit"))
          /\ calls[c].message = "hello"

\* the calls named op that say calls have made
SayCalls(op) == SelectSeq(wire, LAMBDA c : c.by # ByConnect /\ c.op = op)

(* C9: every say call makes a launch of its own: once all n calls made on   *)
(* a Connection have returned Ok there have been n launches, n transport    *)
(* connects and n loads, and no two calls hold the same identifiers.        *)
C9_LaunchPerCall ==
    /\ \A c \in 1..Len(calls) :
          Len(SelectSeq(CallsBy(BySay(c)), LAMBDA k : k.op = "launch_app"))
              = IF calls[c].pc = "launch" THEN 0 ELSE 1
    /\ (\A c \in 1..Len(calls) : calls[c].result = Some(Ok("unit"))) =>
          /\ Len(SayCalls("launch_app")) = Len(calls)
          /\ Len(SayCalls("connection.connect")) = Len(calls)
          /\ Len(SayCalls("media.load")) = Len(calls)
    /\ \A c, d \in 1..Len(calls) :
          (c # d /\ calls[c].app.some /\ calls[d].app.some) =>
              /\ calls[c].app.val.transport_id # calls[d].app.val.transport_id
              /\ calls[c].app.val.session_id # calls[d].app.val.session_id

\* two calls, one after the other, have both returned Ok
C9_Witness ==
    /\ Len(calls) >= 2
    /\ \A c \in 1..Len(calls) : calls[c].result = Some(Ok("unit"))
    /\ \A i, j \in 1..Len(wire) : (wire[i].by = BySay(1) /\ wire[j].by = BySay(2)) => i < j

(* C10: no lock is held across the steps of a say call: whatever the other  *)
(* calls on the Connection are doing, the next step of a call can be taken  *)
(* and a further call can start.                                            *)
C10_NoLockAcrossSteps ==
    /\ \A c \in 1..Len(calls) :
          /\ calls[c].pc = "launch" => ENABLED say_launch(c)
          /\ calls[c].pc = "connect" => ENABLED say_connect(c)
          /\ calls[c].pc = "load" => ENABLED say_load(c)
    /\ (session.some /\ Len(calls) < MaxCalls) => ENABLED (\E text \in Texts : say(text))

\* launch of call 1, launch of call 2, connect of call 1, connect of call 2
C10_Witness ==
    \E i, j, k, l \in 1..Len(wire) :
        /\ i < j /\ j < k /\ k < l
        /\ wire[i].by = BySay(1) /\ wire[i].op = "launch_app"
        /\ wire[j].by = BySay(2) /\ wire[j].op = "launch_app"
        /\ wire[k].by = BySay(1) /\ wire[k].op = "connection.connect"
        /\ wire[l].by = BySay(2) /\ wire[l].op = "connection.connect"

(* C11: a connect or say future dropped while pending does not stop its     *)
(* worker task: the next blocking step of the task can always be taken, a   *)
(* task that has ended made the same calls as one that was awaited (all of  *)
(* them, or up to the first that failed), and nothing is delivered: a       *)
(* dropped connect gives no Connection and no result, a dropped say no      *)
(* result.                                                                  *)
C11_DroppedTaskRunsUndelivered ==
    /\ IsDropped(ByConnect) =>
          /\ ~conn.result.some
          /\ ~session.some
          /\ conn.pc = "open" => ENABLED connect_open
          /\ conn.pc = "address" => ENABLED connect_receiver
          /\ conn.pc = "ping" => ENABLED connect_ping
          /\ conn.pc = "finished" =>
                LET cw == CallsBy(ByConnect)
                IN  /\ conn.output.some
                    /\ cw[Len(cw)].res.tag = "err" \/ Len(cw) = 3
                    /\ \A i \in 1..(Len(cw) - 1) : cw[i].res.tag = "ok"
    /\ \A c \in 1..Len(calls) :
          IsDropped(BySay(c)) =>
              /\ ~calls[c].result.some
              /\ calls[c].pc = "launch" => ENABLED say_launch(c)
              /\ calls[c].pc = "connect" => ENABLED say_connect(c)
              /\ calls[c].pc = "load" => ENABLED say_load(c)
              /\ calls[c].pc = "returned" =>
                    LET cw == CallsBy(BySay(c))
                    IN  /\ cw[Len(cw)].res.tag = "err" \/ Len(cw) = 3
                        /\ \A i \in 1..(Len(cw) - 1) : cw[i].res.tag = "ok"

\* a say future was dropped before its launch was made; the launch, the
\* transport connect and the load were made all the same and returned Ok,
\* and the call has no result
C11_Witness ==
    \E d \in dropped :
        /\ d.by = BySay(1)
        /\ d.at = 3
        /\ Len(wire) = 6
        /\ \A i \in 4..6 : wire[i].by = BySay(1) /\ wire[i].res.tag = "ok"
        /\ wire[6].op = "media.load"
        /\ calls[1].pc = "returned"
        /\ ~calls[1].result.some

-----------------------------------------------------------------------------
\* the first item of the TXT record r is fn-keyed
FirstPairIsFn(r) ==
    /\ r.kind = "TXT"
    /\ r.data # <<>>
    /\ IsFnKeyed(r.data[1])

(* C12, as the specification states it: a descriptor's name is the value   *)
(* of the first item of a TXT record whose first item has key fn, so a      *)
(* response none of whose TXT records has fn as the key of its first item   *)
(* gives no descriptor.                                                     *)
C12_NameOnlyFromFirstPair ==
    (extracted.some /\ extracted.val.val.some) =>
        \E i \in 1..Len(response) :
            /\ FirstPairIsFn(response[i])
            /\ extracted.val.val.val.name = FnValue(response[i].data[1])

(* C12, as the code has it: the name is the value of the first fn-keyed     *)
(* item of a TXT record, at whatever position of the record that item is;   *)
(* a response with an A and an SRV record and a TXT record whose first      *)
(* fn-keyed item has a value gives a descriptor, also when that item is     *)
(* not the first of its record.                                             *)
C12_NameFromFirstFnItemAnywhere ==
    extracted.some =>
        /\ extracted.val.val.some =>
              \E i \in 1..Len(response) :
                  /\ response[i].kind = "TXT"
                  /\ \E k \in 1..Len(response[i].data) :
                        /\ FirstFnKeyed(response[i].data, k)
                        /\ Len(response[i].data[k]) >= 3
                        /\ extracted.val.val.val.name = FnValue(response[i].data[k])
        /\ (/\ \E i \in 1..Len(response) : GivesName(response[i])
            /\ HasKind(response, "A")
            /\ HasKind(response, "SRV")) => extracted.val.val.some

\* a descriptor named Den came from a response no TXT record of which has
\* fn as the key of its first item
C12_Witness ==
    /\ extracted.some
    /\ extracted.val.val.some
    /\ extracted.val.val.val.name = Den
    /\ \A i \in 1..Len(response) : ~FirstPairIsFn(response[i])

-----------------------------------------------------------------------------
(* Steps of one stream, stated on what the response source holds *)

\* what the poll of this step is made on: the stream the first poll gets
\* from the query, or what the response source holds
PolledSource(s) ==
    IF query[s] = "unsent"
    THEN IF query'[s] = "ok" THEN <<>> ELSE QueryFailedStream(query'[s])
    ELSE net[s]

\* the step, if it changes anything, is a poll of stream s
IsPollStep(s) ==
    /\ query[s] # "absent"
    /\ arrived'[s] = arrived[s]
    /\ Len(net'[s]) <= Len(net[s]) \/ query[s] = "unsent"

\* an event a poll passes over without returning: a response that lacks a
\* field, or one whose address is in the seen-set
PassedOver(ev, seenSet) ==
    /\ ev.kind = "resp"
    /\ LET t == Extract(ev.additional) IN ~t.some \/ t.val.addr \in seenSet

(* C13: a poll returns the end of the stream only when it has reached the   *)
(* end of the response source, having passed over nothing but responses     *)
(* that lack a field and duplicates; the poll that forwards an error does   *)
(* not end the stream; and a poll that finds, behind skipped responses and  *)
(* duplicates, a response with an unseen address emits its descriptor.      *)
C13_EndOnlyAtUpstreamEnd ==
    [][\A s \in StreamIds :
          LET q == PolledSource(s) IN
          /\ (ended'[s] /\ ~ended[s]) =>
                /\ \E k \in 1..Len(q) :
                      /\ q[k] = End
                      /\ \A i \in 1..(k - 1) : PassedOver(q[i], seen[s])
                /\ out'[s] = out[s]
          /\ (Len(out'[s]) > Len(out[s]) /\ out'[s][Len(out'[s])].tag = "err") => ~ended'[s]
          /\ IsPollStep(s) =>
                \A k \in 1..Len(q) :
                    (/\ q[k].kind = "resp"
                     /\ Extract(q[k].additional).some
                     /\ Extract(q[k].additional).val.addr \notin seen[s]
                     /\ \A i \in 1..(k - 1) : PassedOver(q[i], seen[s])) =>
                        /\ out'[s] = Append(out[s], Ok(Extract(q[k].additional).val))
                        /\ ~ended'[s]]_vars

\* a descriptor, then a duplicate of it and an error, then a descriptor of
\* an unseen address: emitted, and the stream has not ended
C13_Witness ==
    /\ Len(up[1]) = 4
    /\ RepeatsAddress(up[1], 2)
    /\ up[1][3].tag = "err"
    /\ up[1][4].tag = "ok"
    /\ out[1] = <<up[1][1], up[1][3], up[1][4]>>
    /\ ~ended[1]

-----------------------------------------------------------------------------
\* the addresses of the successful descriptors among the items
EmittedAddrs(items) == {items[i].val.addr : i \in {j \in 1..Len(items) : items[j].tag = "ok"}}

(* C14: the seen-set of a stream is empty at first and is at every moment   *)
(* the set of the addresses of the descriptors emitted so far; a step       *)
(* never takes an address out of it, and it changes exactly in the step     *)
(* that emits a descriptor, by the address of that descriptor: not when an  *)
(* error is forwarded, a duplicate is discarded, a poll is pending or the   *)
(* end is returned.                                                         *)
C14_SeenIsEmittedAddresses ==
    /\ \A s \in StreamIds : seen[s] = {}
    /\ [](\A s \in StreamIds :
             /\ seen[s] = EmittedAddrs(out[s])
             /\ Cardinality(seen[s]) = Len(OkTargets(out[s])))
    /\ [][\A s \in StreamIds :
             /\ seen[s] \subseteq seen'[s]
             /\ seen'[s] # seen[s] <=>
                   /\ Len(out'[s]) = Len(out[s]) + 1
                   /\ out'[s][Len(out'[s])].tag = "ok"
             /\ seen'[s] # seen[s] =>
                   /\ out'[s][Len(out'[s])].val.addr \notin seen[s]
                   /\ seen'[s] = seen[s] \cup {out'[s][Len(out'[s])].val.addr}
                   /\ ~ended'[s]]_vars

\* two descriptors were emitted, an error was forwarded, a duplicate was
\* discarded and the end was returned; the seen-set holds the two addresses
C14_Witness ==
    /\ ended[1]
    /\ Cardinality(seen[1]) = 2
    /\ Len(out[1]) = 3
    /\ \E i \in 1..Len(out[1]) : out[1][i].tag = "err"
    /\ \E i \in 1..Len(up[1]) : RepeatsAddress(up[1], i)

-----------------------------------------------------------------------------
(* C15: every call of discover() makes a stream with an empty seen-set of   *)
(* its own: a step changes one stream and leaves the other as it was, and   *)
(* a poll emits the first response it finds whose address is not in the     *)
(* seen-set of its own stream, whether or not the other stream has emitted  *)
(* that address; duplicates are judged by the stream's own seen-set alone.  *)
C15_SeenSetPerStream ==
    [][\A s, t \in StreamIds :
          s # t =>
              LET q == PolledSource(s) IN
              /\ StreamState(s)' # StreamState(s) => StreamState(t)' = StreamState(t)
              /\ (query[s] = "absent" /\ query'[s] = "unsent") => seen'[s] = {}
              /\ (IsPollStep(s) /\ StreamState(s)' # StreamState(s)) =>
                    \A k \in 1..Len(q) :
                        (/\ q[k].kind = "resp"
                         /\ Extract(q[k].additional).some
                         /\ Extract(q[k].additional).val.addr \notin seen[s]
                         /\ \A i \in 1..(k - 1) : PassedOver(q[i], seen[s])) =>
                            /\ out'[s] = Append(out[s], Ok(Extract(q[k].additional).val))
                            /\ seen'[s] = seen[s] \cup {Extract(q[k].additional).val.addr}]_vars

\* both streams received the same address, the second twice; each has
\* emitted it once
C15_Witness ==
    /\ Len(out[1]) = 1
    /\ out[1][1].tag = "ok"
    /\ out[2] = out[1]
    /\ Len(up[2]) = 2
    /\ RepeatsAddress(up[2], 2)
    /\ seen[1] = seen[2]

-----------------------------------------------------------------------------
(* C16: a stream calls mdns::discover::all at most once, for the cast       *)
(* service name: not at all while discover() has returned and the stream    *)
(* has not been polled, once from the first poll on, and not again after    *)
(* the query has failed, a listen error was forwarded or the end was        *)
(* returned.                                                                *)
C16_QueryAtMostOnce ==
    \A s \in StreamIds :
        /\ Len(queries[s]) <= 1
        /\ query[s] \in {"absent", "unsent"} => queries[s] = <<>>
        /\ query[s] \notin {"absent", "unsent"} => queries[s] = <<"_googlecast._tcp.local">>
        /\ (ended[s] \/ query[s] \in MdnsErrors \/ ErrItems(out[s]) # <<>>) =>
              Len(queries[s]) = 1

\* the query was sent, a listen error was forwarded, the end was returned,
\* and there has been one query
C16_Witness ==
    /\ query[1] = "ok"
    /\ ErrItems(out[1]) # <<>>
    /\ ended[1]
    /\ Len(queries[1]) = 1

-----------------------------------------------------------------------------
\* say call c has returned an error
SayFailed(c) == calls[c].result.some /\ calls[c].result.val.tag = "err"

(* C17: a say call that fails makes no call after the one that failed: no   *)
(* step is made twice and nothing but launch, transport connect and load    *)
(* is ever called; the Connection is what it was, and stays so; after a     *)
(* failure a further say can be started, and each step of every other call  *)
(* can still be taken and can return Ok.                                    *)
C17_FailedSayLeavesSession ==
    /\ [](\A c \in 1..Len(calls) :
             LET cw == CallsBy(BySay(c)) IN
             /\ \A i, j \in 1..Len(cw) : i # j => cw[i].op # cw[j].op
             /\ \A i \in 1..Len(cw) :
                   cw[i].op \in {"launch_app", "connection.connect", "media.load"}
             /\ SayFailed(c) =>
                   /\ cw[Len(cw)].res.tag = "err"
                   /\ \A i \in 1..(Len(cw) - 1) : cw[i].res.tag = "ok"
                   /\ session = Some([device |-> CastDevice(conn.target.val.addr)])
                   /\ Len(calls) < MaxCalls => ENABLED (\E text \in Texts : say(text))
                   /\ \A d \in 1..Len(calls) :
                         /\ calls[d].pc = "launch" =>
                               ENABLED (say_launch(d) /\ calls'[d].pc = "connect")
                         /\ calls[d].pc = "connect" =>
                               ENABLED (say_connect(d) /\ calls'[d].pc = "load")
                         /\ calls[d].pc = "load" =>
                               ENABLED (say_load(d) /\ calls'[d].result = Some(Ok("unit"))))
    /\ [][/\ session.some => session' = session
          /\ \A c \in 1..Len(calls) :
                calls[c].result.some =>
                    /\ calls'[c] = calls[c]
                    /\ CallsBy(BySay(c))' = CallsBy(BySay(c))]_vars

\* the first call failed at its load, after its launch and transport
\* connect; a call made after that has launched again and returned Ok
C17_Witness ==
    /\ Len(calls) = 2
    /\ calls[1].result = Some(Err(Cast(<<"failed", "media.load">>)))
    /\ calls[2].result = Some(Ok("unit"))
    /\ Len(CallsBy(BySay(1))) = 3
    /\ \A i, j \in 1..Len(wire) : (wire[i].by = BySay(1) /\ wire[j].by = BySay(2)) => i < j
    /\ session.some

-----------------------------------------------------------------------------
\* call i of the wire is a launch by say call c that returned Ok
IsLaunchOf(i, c) ==
    /\ wire[i].by = BySay(c)
    /\ wire[i].op = "launch_app"
    /\ wire[i].res.tag = "ok"

(* C18: however the steps of concurrent say calls interleave, a transport   *)
(* connect or a load on the wire carries the identifiers that an earlier    *)
(* launch of the same say call returned, and they are the identifiers of    *)
(* no launch of another call.                                               *)
C18_OwnLaunchIdentifiers ==
    \A i \in 1..Len(wire) :
        \A c \in 1..Len(calls) :
            (wire[i].by = BySay(c) /\ wire[i].op \in {"connection.connect", "media.load"}) =>
                /\ \E j \in 1..(i - 1) :
                      /\ IsLaunchOf(j, c)
                      /\ wire[i].args[1] = wire[j].res.val.transport_id
                      /\ wire[i].op = "media.load" =>
                            wire[i].args[2] = wire[j].res.val.session_id
                /\ \A j \in 1..Len(wire) :
                      \A d \in 1..Len(calls) :
                          (d # c /\ IsLaunchOf(j, d)) =>
                              /\ wire[i].args[1] # wire[j].res.val.transport_id
                              /\ wire[i].op = "media.load" =>
                                    wire[i].args[2] # wire[j].res.val.session_id

\* two calls launched one after the other; the first made its transport
\* connect after the launch of the second, and its load after the load of
\* the second; both returned Ok
C18_Witness ==
    /\ Len(wire) = 9
    /\ \A i \in 4..9 : wire[i].res.tag = "ok"
    /\ wire[4].by = BySay(1) /\ wire[4].op = "launch_app"
    /\ wire[5].by = BySay(2) /\ wire[5].op = "launch_app"
    /\ wire[6].by = BySay(1) /\ wire[6].op = "connection.connect"
    /\ wire[7].by = BySay(2) /\ wire[7].op = "connection.connect"
    /\ wire[8].by = BySay(2) /\ wire[8].op = "media.load"
    /\ wire[9].by = BySay(1) /\ wire[9].op = "media.load"
    /\ calls[1].message # calls[2].message

-----------------------------------------------------------------------------
\* the responses stream s has received and passed over as lacking a field
SkippedCount(s) ==
    arrived[s] - Len(up[s]) - Len(SelectSeq(net[s], LAMBDA ev : ev # End))

(* C19: an error item the consumer gets is Error::Mdns of an error the      *)
(* response source gave to the poll that returns it: the failure of the     *)
(* query, or an error of the listen stream, standing in the source behind   *)
(* nothing but skipped responses and duplicates, and taken out of the       *)
(* source by that poll. No response, whatever records it has, is turned     *)
(* into an error.                                                           *)
C19_ErrorsComeFromSource ==
    [][\A s \in StreamIds :
          LET q == PolledSource(s)
              n == Len(out'[s])
          IN  /\ (n > Len(out[s]) /\ out'[s][n].tag = "err") =>
                    /\ n = Len(out[s]) + 1
                    /\ out'[s][n].err.variant = "Mdns"
                    /\ \E k \in 1..Len(q) :
                          /\ q[k].kind = "err"
                          /\ q[k].e \in MdnsErrors
                          /\ out'[s][n].err.e = q[k].e
                          /\ \A i \in 1..(k - 1) : PassedOver(q[i], seen[s])
                          /\ net'[s] = SubSeq(q, k + 1, Len(q))
              /\ (IsPollStep(s) /\ \A k \in 1..Len(q) : q[k].kind # "err") =>
                    ErrItems(out'[s]) = ErrItems(out[s])]_vars

\* the stream has passed over a response without a port and has forwarded
\* one error, the one the listen stream gave
C19_Witness ==
    /\ query[1] = "ok"
    /\ SkippedCount(1) >= 1
    /\ ErrItems(out[1]) = <<Err(Mdns("mdns-io"))>>
    /\ arrived[1] = 3
    /\ Len(out[1]) = 2

-----------------------------------------------------------------------------
\* the descriptors the responses of the stream give
Descriptors ==
    {Extract(ev.additional).val :
        ev \in {x \in LiveEvents : x.kind = "resp" /\ Extract(x.additional).some}}

\* the response source of stream s holds a response that gives descriptor t,
\* the address of t is not in the seen-set, and no response before it in
\* the source gives that address
HoldsUnseen(s, t) ==
    /\ t.addr \notin seen[s]
    /\ \E k \in 1..Len(net[s]) :
          /\ net[s][k].kind = "resp"
          /\ Extract(net[s][k].additional) = Some(t)
          /\ \A i \in 1..(k - 1) :
                (net[s][i].kind = "resp" /\ Extract(net[s][i].additional).some) =>
                    Extract(net[s][i].additional).val.addr # t.addr

\* the items the poll of this step took from upstream
TakenFromUpstream(s) == SubSeq(up'[s], Len(up[s]) + 1, Len(up'[s]))

(* C20: of the items one poll takes from upstream all but the last are      *)
(* descriptors with a seen address; an error or an unseen descriptor taken  *)
(* is the last one and is what the poll returns; a poll that returns        *)
(* neither an item nor the end has left nothing ready upstream. So, with a  *)
(* consumer that keeps polling, a descriptor with an unseen address that    *)
(* upstream holds is emitted in the end.                                    *)
C20_PollLoopsOverDuplicatesOnly ==
    /\ [][\A s \in StreamIds :
             LET new == TakenFromUpstream(s)
                 n == Len(new)
             IN  /\ \A i \in 1..(n - 1) :
                       new[i].tag = "ok" /\ new[i].val.addr \in seen[s]
                 /\ (n > 0 /\ (new[n].tag = "err" \/ new[n].val.addr \notin seen[s])) =>
                       out'[s] = Append(out[s], new[n])
                 /\ (n > 0 /\ new[n].tag = "ok" /\ new[n].val.addr \in seen[s]) =>
                       out'[s] = out[s]
                 /\ (IsPollStep(s) /\ out'[s] = out[s] /\ ~ended'[s]) => net'[s] = <<>>]_vars
    /\ \A t \in Descriptors :
          HoldsUnseen(1, t) ~> (\E i \in 1..Len(out[1]) : out[1][i] = Ok(t))

\* a descriptor, a duplicate of it under another name and a descriptor of
\* another address were taken from upstream; the first and the last were
\* returned
C20_Witness ==
    /\ Len(up[1]) = 3
    /\ RepeatsAddress(up[1], 2)
    /\ up[1][2].val.name # up[1][1].val.name
    /\ out[1] = <<up[1][1], up[1][3]>>
    /\ net[1] = <<>>

=============================================================================
